---- MODULE Spec2Model ----
(***************************************************************************)
(* Model of the rule-based itinerary planner of Travel-Guide               *)
(* (src/agent.py, create_itinerary_simple) and of the TripRequest data     *)
(* it consumes (src/models.py).                                            *)
(*                                                                         *)
(* Number representation.  The program computes in Python floats.  The    *)
(* model computes in exact integers on grids on which the program's float  *)
(* arithmetic is exact for the inputs enumerated here:                     *)
(*   money         in eighths of a dollar (12.125 dollars = 97),           *)
(*   rounded money in cents (round(x, 2)),                                 *)
(*   coordinates   in 1/128 of a degree,                                   *)
(*   scores        in 1/32 of a point (5.0 = 160).                         *)
(* Quotients (daily_budget = budget / max(num_days, 1)) are kept as a      *)
(* numerator and a denominator and compared by cross-multiplication.       *)
(* An optional value (rating) is a sequence of length 0 (None) or 1.       *)
(* Strings that the program inspects (names, categories, interests) are    *)
(* sequences of one-character strings.                                     *)
(***************************************************************************)
EXTENDS Integers, Sequences, FiniteSets, TLC

(***************************************************************************)
(* Bounds of the model                                                     *)
(***************************************************************************)
MaxDays == 2
MaxGroup == 2
MaxLen == 3
MaxFreeLen == 6
MaxRankLen == 2
MaxElements == 2

(***************************************************************************)
(* Small arithmetic helpers                                                *)
(***************************************************************************)
Max(a, b) == IF a >= b THEN a ELSE b

RECURSIVE ISqrtFrom(_, _)
ISqrtFrom(n, r) == IF (r + 1) * (r + 1) > n THEN r ELSE ISqrtFrom(n, r + 1)

\* math.sqrt on the grid: the inputs enumerated below are perfect squares
Sqrt(n) == ISqrtFrom(n, 0)

RECURSIVE SumSeq(_)
SumSeq(s) == IF s = <<>> THEN 0 ELSE Head(s) + SumSeq(Tail(s))

\* eighths of a dollar in d dollars
Dollars(d) == d * 8

(***************************************************************************)
(* Strings                                                                 *)
(***************************************************************************)
UpperCase ==
  <<"A","B","C","D","E","F","G","H","I","J","K","L","M",
    "N","O","P","Q","R","S","T","U","V","W","X","Y","Z">>
LowerCase ==
  <<"a","b","c","d","e","f","g","h","i","j","k","l","m",
    "n","o","p","q","r","s","t","u","v","w","x","y","z">>

\* the lower-case letter of every upper-case letter
LowerOf ==
  [c \in {UpperCase[k] : k \in 1..Len(UpperCase)} |->
     LowerCase[CHOOSE k \in 1..Len(UpperCase) : UpperCase[k] = c]]

\* str.lower()
lower(s) ==
  [i \in 1..Len(s) |-> IF s[i] \in DOMAIN LowerOf THEN LowerOf[s[i]] ELSE s[i]]

\* a in b  (Python substring containment)
contains(b, a) ==
  \E i \in 0..(Len(b) - Len(a)) : SubSeq(b, i + 1, i + Len(a)) = a

(***************************************************************************)
(* Input data: the candidate POIs (models.Place) and the trip requests     *)
(***************************************************************************)
city_coords == <<48 * 128, 2 * 128>>

Place(name, category, dlat, dlon, cost, rating) ==
  [name |-> name, category |-> category,
   latitude |-> city_coords[1] + dlat, longitude |-> city_coords[2] + dlon,
   estimated_cost |-> cost, rating |-> rating]

\* "City Museum", museum, 20 dollars, unrated
CityMuseum ==
  Place(<<"C","i","t","y"," ","M","u","s","e","u","m">>,
        <<"m","u","s","e","u","m">>, 3, 4, Dollars(20), <<>>)
\* "Riverside Park", park, free, unrated
RiversidePark ==
  Place(<<"R","i","v","e","r","s","i","d","e"," ","P","a","r","k">>,
        <<"p","a","r","k">>, 0, 5, 0, <<>>)
\* "Art Gallery", art_gallery, 25 dollars, rated 4.5
ArtGallery ==
  Place(<<"A","r","t"," ","G","a","l","l","e","r","y">>,
        <<"a","r","t","_","g","a","l","l","e","r","y">>, 6, 8, Dollars(25), <<144>>)
\* "Old Cafe", cafe, 12.125 dollars, rated 0.0
OldCafe ==
  Place(<<"O","l","d"," ","C","a","f","e">>,
        <<"c","a","f","e">>, 0, 1, 97, <<0>>)
\* "Hill Viewpoint", viewpoint, free, rated 4.0
HillViewpoint ==
  Place(<<"H","i","l","l"," ","V","i","e","w","p","o","i","n","t">>,
        <<"v","i","e","w","p","o","i","n","t">>, 0, 0, 0, <<128>>)

\* "City Museum", museum, 15 dollars, unrated, 1/128 degree north of the centre
ScenarioMuseum ==
  Place(<<"C","i","t","y"," ","M","u","s","e","u","m">>,
        <<"m","u","s","e","u","m">>, 1, 0, Dollars(15), <<>>)
\* "Riverside Park", park, free, unrated, 2/128 degree north of the centre
ScenarioPark ==
  Place(<<"R","i","v","e","r","s","i","d","e"," ","P","a","r","k">>,
        <<"p","a","r","k">>, 2, 0, 0, <<>>)
\* "North Tower", attraction, 10 dollars, unrated, 8/128 degree north of the centre
NorthTower ==
  Place(<<"N","o","r","t","h"," ","T","o","w","e","r">>,
        <<"a","t","t","r","a","c","t","i","o","n">>, 8, 0, Dollars(10), <<>>)

Catalogue == {CityMuseum, RiversidePark, ArtGallery, OldCafe}
RankCatalogue == {CityMuseum, ScenarioMuseum, ScenarioPark, NorthTower}
FreeCatalogue == {RiversidePark, HillViewpoint}

SeqsUpTo(S, n) == UNION {[1..k -> S] : k \in 0..n}

\* the POI lists handed to the planner
PlaceLists == SeqsUpTo(Catalogue, MaxLen) \cup SeqsUpTo(FreeCatalogue, MaxFreeLen)

\* example scenario 2: 20 free POIs (four times the packed target) for a
\* three-day packed trip; k unrated POIs followed by rated, closer ones
ScenarioPOIs == 4 * 5
ScenarioDays == {3}
PackedLists ==
  { [i \in 1..ScenarioPOIs |-> IF i <= k THEN RiversidePark ELSE HillViewpoint] :
      k \in 0..ScenarioPOIs }

InterestLists ==
  { <<>>,
    << <<"M","u","s","e","u","m">> >>,
    << <<"m","u","s","e","u","m","s">>, <<"p","a","r","k">> >> }

RankInterestLists ==
  { <<>>,
    << <<"m","u","s","e","u","m","s">> >>,
    << <<"M","u","s","e","u","m">>, <<"C","I","T","Y">> >> }

Budgets == {Dollars(100), Dollars(300)}
RankBudgets == {Dollars(60), Dollars(100)}

\* date(2025, 6, 1).toordinal()
StartDates == {739403}

ValidPaces == {"relaxed", "moderate", "packed"}

TripRequests(days, paces) ==
  { [start_date |-> sd, end_date |-> sd + n, budget |-> b,
     interests |-> ints, pace |-> p, group_size |-> g] :
       sd \in StartDates, n \in days, b \in Budgets,
       ints \in InterestLists, p \in paces, g \in 1..MaxGroup }

TripRequestsOf(days, paces, budgets, interestLists) ==
  { [start_date |-> sd, end_date |-> sd + n, budget |-> b,
     interests |-> ints, pace |-> p, group_size |-> g] :
       sd \in StartDates, n \in days, b \in budgets,
       ints \in interestLists, p \in paces, g \in 1..MaxGroup }

(***************************************************************************)
(* models.TripRequest: construction (models.py 11-44)                      *)
(***************************************************************************)
\* allowed = ["relaxed", "moderate", "packed"]
allowed ==
  << <<"r","e","l","a","x","e","d">>,
     <<"m","o","d","e","r","a","t","e">>,
     <<"p","a","c","k","e","d">> >>

\* the planner's name of an allowed pace text
pace_name(text) ==
  CASE text = allowed[1] -> "relaxed"
    [] text = allowed[2] -> "moderate"
    [] text = allowed[3] -> "packed"

\* validate_pace: does v.lower() pass, i.e. is it in allowed
validate_pace(v) == \E k \in 1..Len(allowed) : allowed[k] = lower(v)

\* the date validator rejecting only an end date before the start date
validate_dates_lt(v, start) == ~ (v < start)

\* validate_dates: does the end date v pass, i.e. not v <= start_date
validate_dates(v, start) == ~ (v <= start)

\* Field(..., gt=0) on budget and on group_size
gt0(v) == v > 0

\* does TripRequest(**raw) construct, or raise a validation error
validates(raw) ==
  /\ gt0(raw.budget)
  /\ validate_pace(raw.pace)
  /\ gt0(raw.group_size)
  /\ validate_dates(raw.end_date, raw.start_date)

\* the pace texts offered to the constructor
RawPaces ==
  { <<"r","e","l","a","x","e","d">>,
    <<"P","a","c","k","e","d">>,
    <<"M","O","D","E","R","A","T","E">>,
    <<"l","e","i","s","u","r","e","l","y">>,
    <<>> }

\* the keyword arguments offered to the constructor
RawRequests ==
  { [start_date |-> sd, end_date |-> sd + n, budget |-> b,
     interests |-> <<>>, pace |-> p, group_size |-> g] :
       sd \in StartDates, n \in -1..MaxDays, b \in {-Dollars(100), 0, Dollars(100)},
       p \in RawPaces, g \in -1..MaxGroup }

(***************************************************************************)
(* models.TripRequest: derived properties                                  *)
(***************************************************************************)
num_days(t) == t.end_date - t.start_date

\* budget / max(num_days, 1), as a fraction
daily_budget(t) == [num |-> t.budget, den |-> Max(num_days(t), 1)]

(***************************************************************************)
(* The haversine tool (agent.py 58-73)                                     *)
(***************************************************************************)
\* calculate_distance for two points of equal longitude, in 1/32 km.  With
\* delta_lon = 0 the formula reduces to a = sin(delta_lat / 2) ** 2 and
\* c = delta_lat (in radians), so the result is R * radians(|lat2 - lat1|),
\* R = 6371; latitudes are in 1/128 degree and pi is taken as 355/113.
calculate_distance(lat1, lon1, lat2, lon2) ==
  CASE lon1 = lon2 ->
    (6371 * 355 * (IF lat2 >= lat1 THEN lat2 - lat1 ELSE lat1 - lat2))
      \div (113 * 180 * 4)

(***************************************************************************)
(* Ranking (agent.py 233-263)                                              *)
(***************************************************************************)
\* one interest matches a place: substring of the category or of the name
interest_match(interest, place) ==
  \/ contains(lower(place.category), lower(interest))
  \/ contains(lower(place.name), lower(interest))

interest_score(interests, place) ==
  160 * Cardinality({i \in 1..Len(interests) : interest_match(interests[i], place)})

\* max(0, 5 - distance * 100), distance the Euclidean distance in degrees
proximity_score(place, city) ==
  Max(0, 160 - 25 * Sqrt((place.latitude - city[1]) * (place.latitude - city[1])
                        + (place.longitude - city[2]) * (place.longitude - city[2])))

\* if place.rating: score += place.rating
\* (a rating of 0.0 is falsy too and adds the same 0)
rating_score(place) ==
  IF place.rating = <<>> \/ place.rating[1] = 0 THEN 0 ELSE place.rating[1]

\* the budget bonus with a non-strict comparison
budget_friendly_le(t, place) ==
  place.estimated_cost * 3 * daily_budget(t).den <= daily_budget(t).num

\* place.estimated_cost < trip_request.daily_budget / 3
budget_friendly(t, place) ==
  place.estimated_cost * 3 * daily_budget(t).den < daily_budget(t).num

score_of(t, place, city) ==
  interest_score(t.interests, place) + proximity_score(place, city)
    + rating_score(place) + (IF budget_friendly(t, place) THEN 64 ELSE 0)

\* the list of (place, score) pairs in input order; pos is the input position
score_places(t, ps, city) ==
  [i \in 1..Len(ps) |-> [place |-> ps[i], score |-> score_of(t, ps[i], city), pos |-> i]]

\* insertion point of x in a list sorted by descending score: after every
\* element whose score is at least x's
RECURSIVE InsertDesc(_, _)
InsertDesc(sorted, x) ==
  IF sorted = <<>> THEN <<x>>
  ELSE IF Head(sorted).score >= x.score
         THEN <<Head(sorted)>> \o InsertDesc(Tail(sorted), x)
         ELSE <<x>> \o sorted

RECURSIVE SortPrefix(_, _)
SortPrefix(s, n) == IF n = 0 THEN <<>> ELSE InsertDesc(SortPrefix(s, n - 1), s[n])

\* a sort that keeps one element per score
RECURSIVE InsertDescUnique(_, _)
InsertDescUnique(sorted, x) ==
  IF sorted = <<>> THEN <<x>>
  ELSE IF Head(sorted).score > x.score
         THEN <<Head(sorted)>> \o InsertDescUnique(Tail(sorted), x)
         ELSE IF Head(sorted).score = x.score THEN sorted ELSE <<x>> \o sorted

RECURSIVE SortPrefixUnique(_, _)
SortPrefixUnique(s, n) ==
  IF n = 0 THEN <<>> ELSE InsertDescUnique(SortPrefixUnique(s, n - 1), s[n])

sort_unique_scores(s) == SortPrefixUnique(s, Len(s))

\* the sort without reverse=True: ascending, stable
RECURSIVE InsertAsc(_, _)
InsertAsc(sorted, x) ==
  IF sorted = <<>> THEN <<x>>
  ELSE IF Head(sorted).score <= x.score
         THEN <<Head(sorted)>> \o InsertAsc(Tail(sorted), x)
         ELSE <<x>> \o sorted

RECURSIVE SortPrefixAsc(_, _)
SortPrefixAsc(s, n) == IF n = 0 THEN <<>> ELSE InsertAsc(SortPrefixAsc(s, n - 1), s[n])

sort_by_score_asc(s) == SortPrefixAsc(s, Len(s))

\* ascending sort followed by a reversal: descending, ties reversed
sort_asc_then_reverse(s) ==
  LET a == sort_by_score_asc(s)
  IN  [i \in 1..Len(a) |-> a[Len(a) + 1 - i]]

\* list.sort(key=lambda x: x[1], reverse=True)
sort_by_score_desc(s) == SortPrefix(s, Len(s))

(***************************************************************************)
(* Allocation (agent.py 265-306)                                           *)
(***************************************************************************)
\* the pace map defaulting to the largest target
target_default_packed(pace) ==
  CASE pace = "relaxed" -> 2
    [] pace = "moderate" -> 3
    [] OTHER -> 5

\* pace_map.get(trip_request.pace, 3)
target_places_per_day(pace) ==
  CASE pace = "relaxed" -> 2
    [] pace = "moderate" -> 3
    [] pace = "packed" -> 5
    [] OTHER -> 3

\* the meal allowance not scaled by the group size
meal_cost_flat(t) == Dollars(40)

meal_cost(t) == Dollars(40) * t.group_size

\* the transport allowance not scaled by the group size
transport_cost_flat(t) == Dollars(15)

transport_cost(t) == Dollars(15) * t.group_size

\* the ceiling check with a strict comparison
within_ceiling_strict(t, cost) == cost * 5 * daily_budget(t).den < daily_budget(t).num * 6

\* cost <= trip_request.daily_budget * 1.2
within_ceiling(t, cost) == cost * 5 * daily_budget(t).den <= daily_budget(t).num * 6

\* the while condition letting a day reach one place more than the target
can_add_le(t, ranked, index, dayPlaces, dayCost) ==
  /\ Len(dayPlaces) <= target_places_per_day(t.pace)
  /\ index < Len(ranked)
  /\ within_ceiling(t, dayCost + ranked[index + 1].estimated_cost * t.group_size)

\* the condition of the while loop that fills a day
can_add(t, ranked, index, dayPlaces, dayCost) ==
  /\ Len(dayPlaces) < target_places_per_day(t.pace)
  /\ index < Len(ranked)
  /\ within_ceiling(t, dayCost + ranked[index + 1].estimated_cost * t.group_size)

\* round(x, 2): eighths of a dollar to cents, ties to the even cent
round2(e) ==
  LET halfCents == 25 * e
      down == halfCents \div 2
  IN  IF halfCents % 2 = 0 THEN down
      ELSE IF down % 2 = 0 THEN down ELSE down + 1

\* the day loop running at least once
day_range_min_one(t) == 1..Max(num_days(t), 1)

\* the day loop stopping one day early
day_range_short(t) == 1..(num_days(t) - 1)

\* range(1, trip_request.num_days + 1)
day_range(t) == 1..num_days(t)

(***************************************************************************)
(* OverpassPOIClient (api_clients.py 72-324): the POI source               *)
(***************************************************************************)
OVERPASS_SERVERS ==
  <<"https://overpass.kumi.systems/api/interpreter",
    "https://overpass-api.de/api/interpreter",
    "https://maps.mail.ru/osm/tools/overpass/api/interpreter">>

\* an OSM element of a response; an absent key is the empty sequence
Element(type, coords, center, name, name_en, tourism, amenity, leisure, historic, fee) ==
  [type |-> type, coords |-> coords, center |-> center,
   tags |-> [name |-> name, name_en |-> name_en, tourism |-> tourism,
             amenity |-> amenity, leisure |-> leisure, historic |-> historic,
             fee |-> fee]]

\* a position dlat, dlon grid steps from the city centre
At(dlat, dlon) == << <<city_coords[1] + dlat, city_coords[2] + dlon>> >>

\* node "City Museum", tourism=museum
MuseumNode ==
  Element("node", At(1, 0), <<>>, <<<<"C","i","t","y"," ","M","u","s","e","u","m">>>>, <<>>,
          <<<<"m","u","s","e","u","m">>>>, <<>>, <<>>, <<>>, <<>>)
\* node "Riverside Park", leisure=park
ParkNode ==
  Element("node", At(2, 0), <<>>, <<<<"R","i","v","e","r","s","i","d","e"," ","P","a","r","k">>>>, <<>>,
          <<>>, <<>>, <<<<"p","a","r","k">>>>, <<>>, <<>>)
\* node without any name, amenity=cafe
UnnamedNode ==
  Element("node", At(0, 1), <<>>, <<>>, <<>>,
          <<>>, <<<<"c","a","f","e">>>>, <<>>, <<>>, <<>>)
\* way "Old Cafe" without a center, amenity=cafe
WayNoCenter ==
  Element("way", <<>>, <<>>, <<<<"O","l","d"," ","C","a","f","e">>>>, <<>>,
          <<>>, <<<<"c","a","f","e">>>>, <<>>, <<>>, <<>>)
\* way with a center and only name:en "Old Castle", historic=castle, fee=No
CastleWay ==
  Element("way", <<>>, At(3, 4), <<>>, <<<<"O","l","d"," ","C","a","s","t","l","e">>>>,
          <<>>, <<>>, <<>>, <<<<"c","a","s","t","l","e">>>>, <<<<"N","o">>>>)
\* node "Old Castle", historic=castle, no fee tag
CastleNode ==
  Element("node", At(3, 4), <<>>, <<<<"O","l","d"," ","C","a","s","t","l","e">>>>, <<>>,
          <<>>, <<>>, <<>>, <<<<"c","a","s","t","l","e">>>>, <<>>)

ElementCatalogue ==
  {MuseumNode, ParkNode, UnnamedNode, WayNoCenter, CastleWay, CastleNode}

\* data.get("elements", []): a list, or a JSON object (it has a length,
\* but cannot be sliced)
Responses ==
  {[is_list |-> TRUE, items |-> l] : l \in SeqsUpTo(ElementCatalogue, MaxElements)}
    \cup {[is_list |-> FALSE, items |-> <<>>]}

\* what requests.post, raise_for_status, response.json or len(elements)
\* (elements null or a number) may raise
RequestErrors == {"ConnectionError", "HTTPError", "JSONDecodeError", "TypeError"}

\* the limit argument: the default of the signature, and one that truncates
Limits == {50, MaxElements - 1}

\* _determine_category(tags)
_determine_category(tags) ==
  CASE tags.tourism = <<<<"m","u","s","e","u","m">>>> -> <<"m","u","s","e","u","m">>
    [] tags.tourism = <<<<"g","a","l","l","e","r","y">>>> -> <<"a","r","t","_","g","a","l","l","e","r","y">>
    [] tags.tourism = <<<<"a","t","t","r","a","c","t","i","o","n">>>> -> <<"a","t","t","r","a","c","t","i","o","n">>
    [] tags.tourism = <<<<"v","i","e","w","p","o","i","n","t">>>> -> <<"v","i","e","w","p","o","i","n","t">>
    [] tags.amenity = <<<<"r","e","s","t","a","u","r","a","n","t">>>> -> <<"r","e","s","t","a","u","r","a","n","t">>
    [] tags.amenity = <<<<"c","a","f","e">>>> -> <<"c","a","f","e">>
    [] tags.amenity = <<<<"p","l","a","c","e","_","o","f","_","w","o","r","s","h","i","p">>>> -> <<"r","e","l","i","g","i","o","u","s","_","s","i","t","e">>
    [] tags.leisure = <<<<"p","a","r","k">>>> -> <<"p","a","r","k">>
    [] tags.leisure = <<<<"g","a","r","d","e","n">>>> -> <<"g","a","r","d","e","n">>
    [] tags.historic # <<>> -> <<"h","i","s","t","o","r","i","c","_">> \o tags.historic[1]
    [] OTHER -> <<"a","t","t","r","a","c","t","i","o","n">>

\* cost_map of _estimate_cost in dict order, costs in eighths of a dollar
cost_map ==
  << <<<<"m","u","s","e","u","m">>, Dollars(15)>>, <<<<"a","r","t","_","g","a","l","l","e","r","y">>, Dollars(12)>>, <<<<"p","a","r","k">>, 0>>,
     <<<<"g","a","r","d","e","n">>, Dollars(5)>>, <<<<"r","e","s","t","a","u","r","a","n","t">>, Dollars(25)>>, <<<<"c","a","f","e">>, Dollars(15)>>,
     <<<<"r","e","l","i","g","i","o","u","s","_","s","i","t","e">>, 0>>, <<<<"h","i","s","t","o","r","i","c">>, Dollars(10)>>, <<<<"a","t","t","r","a","c","t","i","o","n">>, Dollars(10)>>,
     <<<<"s","h","o","p","p","i","n","g">>, Dollars(20)>>, <<<<"v","i","e","w","p","o","i","n","t">>, 0>> >>

\* _estimate_cost(category, tags)
_estimate_cost(category, tags) ==
  IF tags.fee # <<>> /\ lower(tags.fee[1]) = <<"n","o">>
  THEN 0
  ELSE LET hits == {k \in 1..Len(cost_map) : contains(lower(category), cost_map[k][1])}
       IN IF hits = {} THEN Dollars(10)
          ELSE cost_map[CHOOSE k \in hits : \A j \in hits : k <= j][2]

\* _parse_element(element): <<place>>, or <<>> for None
_parse_element(element) ==
  LET tags == element.tags
      name == IF tags.name # <<>> THEN tags.name ELSE tags.name_en
      coords == IF element.type = "node" THEN element.coords ELSE element.center
  IN IF name = <<>> \/ coords = <<>> THEN <<>>
     ELSE LET category == _determine_category(tags)
          IN << Place(name[1], category,
                      coords[1][1] - city_coords[1], coords[1][2] - city_coords[2],
                      _estimate_cost(category, tags), <<>>) >>

\* the parsing loop of fetch_pois over a list of elements
RECURSIVE parse_elements(_)
parse_elements(elements) ==
  IF elements = <<>> THEN <<>>
  ELSE _parse_element(Head(elements)) \o parse_elements(Tail(elements))

\* elements[:limit]
slice_to(elements, limit) ==
  SubSeq(elements, 1, IF limit < Len(elements) THEN limit ELSE Len(elements))

\* the locals of fetch_pois while no call is in progress
NoFetch ==
  [pc |-> "idle", limit |-> 0, server |-> 0, last_error |-> <<>>,
   elements |-> [is_list |-> TRUE, items |-> <<>>], places |-> <<>>,
   raised |-> <<>>]

(***************************************************************************)
(* The agent path: create_itinerary and the tool allocate_places_to_days   *)
(***************************************************************************)
\* the module-level model: "test", or a GeminiModel when GOOGLE_API_KEY is set
Models == {"test", "gemini"}

\* the keyword parameters PlannerDeps accepts: the class declares annotations
\* only and no __init__, so object's constructor takes none
PlannerDeps_params == {}

\* the keywords create_itinerary passes to PlannerDeps
PlannerDeps_kwargs == {"trip_request", "available_places", "city_coords"}

\* what planner_agent.run_sync may do: return a result, or raise
RunOutcomes == {"result", "error"}

\* create_itinerary while no call is in progress
NoAgent == [model |-> "test", pc |-> "idle", raised |-> <<>>, origin |-> "none"]

\* the required fields of models.DayPlan
DayPlan_required == {"day_index", "day_date"}

\* DayPlan(**kwargs) passes validation: required fields present, day_index
\* ge=1, total_cost ge=0; unknown keywords are ignored
DayPlan_validates(kwargs) ==
  /\ DayPlan_required \subseteq DOMAIN kwargs
  /\ kwargs.day_index >= 1
  /\ kwargs.total_cost >= 0

\* the keywords allocate_places_to_days passes to DayPlan
tool_DayPlan_kwargs(t, d, dayPlaces, dayCost) ==
  [day_index |-> d,
   date |-> t.start_date + (d - 1),
   places |-> dayPlaces,
   total_cost |-> round2(dayCost),
   notes |-> [meals |-> meal_cost(t) \div 8, transport |-> transport_cost(t) \div 8]]

\* the locals of allocate_places_to_days while no call is in progress
NoTool ==
  [pc |-> "idle", daily_plans |-> <<>>, current_place_index |-> 0,
   day_num |-> 0, day_places |-> <<>>, day_cost |-> 0, raised |-> <<>>]

(***************************************************************************)
(* State of one call of create_itinerary_simple                            *)
(***************************************************************************)
VARIABLES
  trip_request,   \* the TripRequest argument
  places,         \* the places argument
  pc,             \* position in the function: rank, alloc, aggregate, done
  scored_places,  \* (place, score) pairs, after the sort
  ranked_places,  \* the places in ranked order
  daily_plans,    \* DayPlan entries appended so far
  current_index,  \* cursor into ranked_places (0-based, as in the code)
  day_num,        \* loop variable of the day loop
  day_places,     \* places of the day being filled
  day_cost,       \* running cost of the day being filled
  itinerary,      \* the returned Itinerary, <<>> until the function returns
  fetch,          \* the locals and the outcome of the call of fetch_pois
  agent,          \* the call of create_itinerary: model, position, outcome
  tool            \* the locals and the outcome of allocate_places_to_days

vars == <<trip_request, places, pc, scored_places, ranked_places, daily_plans,
          current_index, day_num, day_places, day_cost, itinerary, fetch,
          agent, tool>>

InitOf(trips, lists) ==
  /\ trip_request \in trips
  /\ places \in lists
  /\ pc = "rank"
  /\ scored_places = <<>>
  /\ ranked_places = <<>>
  /\ daily_plans = <<>>
  /\ current_index = 0
  /\ day_num = 0
  /\ day_places = <<>>
  /\ day_cost = 0
  /\ itinerary = <<>>
  /\ fetch = NoFetch
  /\ agent = NoAgent
  /\ tool = NoTool

InitWith(trips) == InitOf(trips, PlaceLists)

\* trip requests that passed the validators of TripRequest
Init == InitWith(TripRequests(1..MaxDays, ValidPaces))

\* any object with the fields of a TripRequest (the planner does not
\* validate): also no days at all, and a pace outside the pace map
InitAny == InitWith(TripRequests(-1..MaxDays, ValidPaces \cup {"leisurely"}))

\* example scenario 2 with every budget and group size of the model
InitPacked ==
  InitOf(TripRequestsOf(ScenarioDays, {"packed"}, Budgets, {<<>>}), PackedLists)

\* validated trips over short POI lists that exercise the scoring: two
\* interests matching one POI, a cost of exactly a third of the daily
\* budget, POIs due north of the centre
InitRank ==
  InitOf(TripRequestsOf(1..MaxDays, ValidPaces, RankBudgets, RankInterestLists),
         SeqsUpTo(RankCatalogue, MaxRankLen))

\* keyword arguments not yet passed to TripRequest, short POI lists
InitRaw ==
  /\ trip_request \in RawRequests
  /\ places \in SeqsUpTo(RankCatalogue, MaxRankLen)
  /\ pc = "construct"
  /\ scored_places = <<>>
  /\ ranked_places = <<>>
  /\ daily_plans = <<>>
  /\ current_index = 0
  /\ day_num = 0
  /\ day_places = <<>>
  /\ day_cost = 0
  /\ itinerary = <<>>
  /\ fetch = NoFetch
  /\ agent = NoAgent
  /\ tool = NoTool

\* TripRequest(...): the validators run; the request is built with the
\* lower-cased pace, or a validation error is raised
Construct ==
  /\ UNCHANGED <<fetch, agent, tool>>
  /\ pc = "construct"
  /\ IF validates(trip_request)
       THEN /\ trip_request' =
                 [trip_request EXCEPT !.pace = pace_name(lower(trip_request.pace))]
            /\ pc' = "rank"
       ELSE /\ pc' = "invalid"
            /\ UNCHANGED trip_request
  /\ UNCHANGED <<places, scored_places, ranked_places, daily_plans,
                 current_index, day_num, day_places, day_cost, itinerary>>

\* the day loop charging the meals to the first day only
EnterDay_meals_once(d) ==
  IF d \in day_range(trip_request)
    THEN /\ pc' = "alloc"
         /\ day_num' = d
         /\ day_places' = <<>>
         /\ day_cost' = IF d = 1 THEN meal_cost(trip_request) ELSE 0
    ELSE /\ pc' = "aggregate"
         /\ UNCHANGED <<day_num, day_places, day_cost>>

\* top of the body of the day loop for day d (lines 272-279), or the end of
\* the loop when d is past the last day
EnterDay(d) ==
  IF d \in day_range(trip_request)
    THEN /\ pc' = "alloc"
         /\ day_num' = d
         /\ day_places' = <<>>
         /\ day_cost' = meal_cost(trip_request)
    ELSE /\ pc' = "aggregate"
         /\ UNCHANGED <<day_num, day_places, day_cost>>

\* lines 233-270: score every place, sort, start the day loop
Rank ==
  /\ UNCHANGED <<fetch, agent, tool>>
  /\ pc = "rank"
  /\ scored_places' = sort_by_score_desc(score_places(trip_request, places, city_coords))
  /\ ranked_places' = [i \in 1..Len(scored_places') |-> scored_places'[i].place]
  /\ daily_plans' = <<>>
  /\ current_index' = 0
  /\ EnterDay(1)
  /\ UNCHANGED <<trip_request, places, itinerary>>

\* lines 282-290: one iteration of the while loop
AddPlace ==
  /\ UNCHANGED <<fetch, agent, tool>>
  /\ pc = "alloc"
  /\ can_add(trip_request, ranked_places, current_index, day_places, day_cost)
  /\ LET place == ranked_places[current_index + 1]
     IN  /\ day_places' = Append(day_places, place)
         /\ day_cost' = day_cost + place.estimated_cost * trip_request.group_size
         /\ current_index' = current_index + 1
  /\ UNCHANGED <<trip_request, places, pc, scored_places, ranked_places,
                 daily_plans, day_num, itinerary>>

\* the DayPlan dated start_date + day_num days
DayPlan_date_plus_index(t, d, dayPlaces, dayCost) ==
  [day_index |-> d,
   day_date |-> t.start_date + d,
   places |-> dayPlaces,
   total_cost |-> round2(dayCost),
   notes |-> [meals |-> meal_cost(t) \div 8, transport |-> transport_cost(t) \div 8]]

\* DayPlan(day_index=..., day_date=..., places=..., total_cost=round(day_cost, 2), notes=...)
DayPlan(t, d, dayPlaces, dayCost) ==
  [day_index |-> d,
   day_date |-> t.start_date + (d - 1),
   places |-> dayPlaces,
   total_cost |-> round2(dayCost),
   notes |-> [meals |-> meal_cost(t) \div 8, transport |-> transport_cost(t) \div 8]]

\* the day loop restarting the cursor for every day
FinishDay_reset_cursor ==
  /\ UNCHANGED <<fetch, agent, tool>>
  /\ pc = "alloc"
  /\ ~ can_add(trip_request, ranked_places, current_index, day_places, day_cost)
  /\ daily_plans' = Append(daily_plans,
        DayPlan(trip_request, day_num, day_places,
                day_cost + transport_cost(trip_request)))
  /\ current_index' = 0
  /\ EnterDay(day_num + 1)
  /\ UNCHANGED <<trip_request, places, scored_places, ranked_places, itinerary>>

\* the day loop stepping over the POI that did not fit
FinishDay_skip_rejected ==
  /\ UNCHANGED <<fetch, agent, tool>>
  /\ pc = "alloc"
  /\ ~ can_add(trip_request, ranked_places, current_index, day_places, day_cost)
  /\ daily_plans' = Append(daily_plans,
        DayPlan(trip_request, day_num, day_places,
                day_cost + transport_cost(trip_request)))
  /\ current_index' = IF current_index < Len(ranked_places)
                         /\ Len(day_places) < target_places_per_day(trip_request.pace)
                        THEN current_index + 1 ELSE current_index
  /\ EnterDay(day_num + 1)
  /\ UNCHANGED <<trip_request, places, scored_places, ranked_places, itinerary>>

\* lines 292-306: the while loop has ended; add transport, append the DayPlan
FinishDay ==
  /\ UNCHANGED <<fetch, agent, tool>>
  /\ pc = "alloc"
  /\ ~ can_add(trip_request, ranked_places, current_index, day_places, day_cost)
  /\ daily_plans' = Append(daily_plans,
        DayPlan(trip_request, day_num, day_places,
                day_cost + transport_cost(trip_request)))
  /\ EnterDay(day_num + 1)
  /\ UNCHANGED <<trip_request, places, scored_places, ranked_places,
                 current_index, itinerary>>

\* "within budget" if total_cost <= trip_request.budget else "slightly over budget"
\* (total in cents, budget in eighths of a dollar)
WithinBudgetText == <<"w","i","t","h","i","n"," ","b","u","d","g","e","t">>
SlightlyOverBudgetText ==
  <<"s","l","i","g","h","t","l","y"," ","o","v","e","r"," ","b","u","d","g","e","t">>

budget_status_lt(total, budget) ==
  IF total * 8 < budget * 100 THEN WithinBudgetText ELSE SlightlyOverBudgetText

budget_status_of(total, budget) ==
  IF total * 8 <= budget * 100 THEN WithinBudgetText ELSE SlightlyOverBudgetText

\* lines 308-318: totals, notes, the returned Itinerary
Aggregate ==
  /\ UNCHANGED <<fetch, agent, tool>>
  /\ pc = "aggregate"
  /\ LET total_cost == SumSeq([i \in 1..Len(daily_plans) |-> daily_plans[i].total_cost])
     IN  itinerary' =
           [trip_request |-> trip_request,
            days |-> daily_plans,
            total_cost |-> total_cost,
            notes |-> [num_days |-> num_days(trip_request),
                       pace |-> trip_request.pace,
                       budget_status |-> budget_status_of(total_cost, trip_request.budget)]]
  /\ pc' = "done"
  /\ UNCHANGED <<trip_request, places, scored_places, ranked_places, daily_plans,
                 current_index, day_num, day_places, day_cost>>

Next == Rank \/ AddPlace \/ FinishDay \/ Aggregate

Spec == Init /\ [][Next]_vars

SpecAny == InitAny /\ [][Next]_vars

SpecRank == InitRank /\ [][Next]_vars

\* construction of the request followed by the planner
NextConstruct == Construct \/ Rank \/ AddPlace \/ FinishDay \/ Aggregate

SpecConstruct == InitRaw /\ [][NextConstruct]_vars

SpecPacked == InitPacked /\ [][Next]_vars

(***************************************************************************)
(* One call of OverpassPOIClient.fetch_pois (api_clients.py 105-181)       *)
(***************************************************************************)
\* app.py calls fetch_pois before the planner; what a server answers is not
\* decided by the program, so the query built from the interests is left out
InitFetch ==
  /\ trip_request \in TripRequestsOf({1}, {"moderate"}, RankBudgets, {<<>>})
  /\ places = <<>>
  /\ pc = "fetch"
  /\ scored_places = <<>>
  /\ ranked_places = <<>>
  /\ daily_plans = <<>>
  /\ current_index = 0
  /\ day_num = 0
  /\ day_places = <<>>
  /\ day_cost = 0
  /\ itinerary = <<>>
  /\ \E limit \in Limits :
       fetch = [NoFetch EXCEPT !.pc = "request", !.limit = limit, !.server = 1]
  /\ agent = NoAgent
  /\ tool = NoTool

planner_vars ==
  <<trip_request, places, pc, scored_places, ranked_places, daily_plans,
    current_index, day_num, day_places, day_cost, itinerary>>

\* the request to the current server raises: except Exception, continue
RequestFails ==
  /\ fetch.pc = "request"
  /\ fetch.server <= Len(OVERPASS_SERVERS)
  /\ \E e \in RequestErrors :
       fetch' = [fetch EXCEPT !.last_error = <<e>>, !.server = @ + 1]
  /\ UNCHANGED <<planner_vars, agent, tool>>

\* the current server answers with JSON whose elements have a length:
\* elements is bound, break
RequestSucceeds ==
  /\ fetch.pc = "request"
  /\ fetch.server <= Len(OVERPASS_SERVERS)
  /\ \E body \in Responses :
       fetch' = [fetch EXCEPT !.elements = body, !.pc = "process"]
  /\ UNCHANGED <<planner_vars, agent, tool>>

\* the else branch of the for loop: every server failed
AllServersFailed ==
  /\ fetch.pc = "request"
  /\ fetch.server > Len(OVERPASS_SERVERS)
  /\ fetch' = [fetch EXCEPT
                 !.pc = "raised",
                 !.raised = IF fetch.last_error # <<>> THEN fetch.last_error
                            ELSE <<"Exception">>]
  /\ UNCHANGED <<planner_vars, agent, tool>>

\* the try block after the loop: parse elements[:limit] and return the
\* places; slicing something that is not a list raises, and [] is returned
ProcessElements ==
  /\ fetch.pc = "process"
  /\ fetch' = [fetch EXCEPT
                 !.pc = "returned",
                 !.places = IF fetch.elements.is_list
                            THEN parse_elements(slice_to(fetch.elements.items, fetch.limit))
                            ELSE <<>>]
  /\ UNCHANGED <<planner_vars, agent, tool>>

NextFetch == RequestFails \/ RequestSucceeds \/ AllServersFailed \/ ProcessElements

SpecFetch == InitFetch /\ [][NextFetch]_vars

(***************************************************************************)
(* One call of create_itinerary (agent.py 176-217)                         *)
(***************************************************************************)
InitCreate ==
  /\ trip_request \in TripRequestsOf(1..MaxDays, ValidPaces, RankBudgets, {<<>>})
  /\ places \in SeqsUpTo(RankCatalogue, MaxRankLen)
  /\ pc = "create"
  /\ scored_places = <<>>
  /\ ranked_places = <<>>
  /\ daily_plans = <<>>
  /\ current_index = 0
  /\ day_num = 0
  /\ day_places = <<>>
  /\ day_cost = 0
  /\ itinerary = <<>>
  /\ fetch = NoFetch
  /\ \E m \in Models : agent = [NoAgent EXCEPT !.model = m, !.pc = "entry"]
  /\ tool = NoTool

\* lines 190-191: the rule-based model goes to create_itinerary_simple
EnterCreate ==
  /\ agent.pc = "entry"
  /\ IF agent.model = "test"
       THEN /\ agent' = [agent EXCEPT !.pc = "simple"]
            /\ pc' = "rank"
       ELSE /\ agent' = [agent EXCEPT !.pc = "agent"]
            /\ UNCHANGED pc
  /\ UNCHANGED <<trip_request, places, scored_places, ranked_places, daily_plans,
                 current_index, day_num, day_places, day_cost, itinerary,
                 fetch, tool>>

\* lines 194-217: PlannerDeps(...) ahead of the try block, then run_sync
\* inside it: its result is returned, or its error starts the fallback
AgentPath ==
  /\ agent.pc = "agent"
  /\ IF ~ (PlannerDeps_kwargs \subseteq PlannerDeps_params)
       THEN /\ agent' = [agent EXCEPT !.pc = "raised", !.raised = <<"TypeError">>]
            /\ UNCHANGED pc
       ELSE \E outcome \in RunOutcomes :
              IF outcome = "result"
                THEN /\ agent' = [agent EXCEPT !.pc = "returned", !.origin = "agent"]
                     /\ UNCHANGED pc
                ELSE /\ agent' = [agent EXCEPT !.pc = "simple"]
                     /\ pc' = "rank"
  /\ UNCHANGED <<trip_request, places, scored_places, ranked_places, daily_plans,
                 current_index, day_num, day_places, day_cost, itinerary,
                 fetch, tool>>

\* return create_itinerary_simple(...)
ReturnSimple ==
  /\ agent.pc = "simple"
  /\ pc = "done"
  /\ agent' = [agent EXCEPT !.pc = "returned", !.origin = "simple"]
  /\ UNCHANGED <<planner_vars, fetch, tool>>

NextCreate ==
  EnterCreate \/ AgentPath \/ Rank \/ AddPlace \/ FinishDay \/ Aggregate
    \/ ReturnSimple

SpecCreate == InitCreate /\ [][NextCreate]_vars

(***************************************************************************)
(* One call of the tool allocate_places_to_days (agent.py 117-173) on the  *)
(* ranked list of a finished call of create_itinerary_simple               *)
(***************************************************************************)
\* the tool does not validate its trip: also trips without days
InitTool ==
  InitOf(TripRequestsOf(0..MaxDays, ValidPaces, RankBudgets, {<<>>}),
         SeqsUpTo(RankCatalogue, MaxRankLen))

\* top of the body of the tool's day loop for day d (lines 137-144), or the
\* end of the loop when d is past the last day
tool_enter_day(tl, d) ==
  IF d \in day_range(trip_request)
    THEN [tl EXCEPT !.pc = "alloc", !.day_num = d, !.day_places = <<>>,
                    !.day_cost = meal_cost(trip_request)]
    ELSE [tl EXCEPT !.pc = "return"]

\* lines 123-137: the call with the ranked list the planner used
ToolCall ==
  /\ pc = "done"
  /\ tool.pc = "idle"
  /\ tool' = tool_enter_day(NoTool, 1)
  /\ UNCHANGED <<planner_vars, fetch, agent>>

\* lines 147-155: one iteration of the while loop
ToolAddPlace ==
  /\ tool.pc = "alloc"
  /\ can_add(trip_request, ranked_places, tool.current_place_index,
             tool.day_places, tool.day_cost)
  /\ LET place == ranked_places[tool.current_place_index + 1]
     IN tool' = [tool EXCEPT
                   !.day_places = Append(@, place),
                   !.day_cost = @ + place.estimated_cost * trip_request.group_size,
                   !.current_place_index = @ + 1]
  /\ UNCHANGED <<planner_vars, fetch, agent>>

\* lines 157-171: transport, then DayPlan(day_index=..., date=..., ...):
\* the plan is appended, or the validation error leaves the tool
ToolFinishDay ==
  /\ tool.pc = "alloc"
  /\ ~ can_add(trip_request, ranked_places, tool.current_place_index,
               tool.day_places, tool.day_cost)
  /\ LET kwargs == tool_DayPlan_kwargs(trip_request, tool.day_num, tool.day_places,
                                       tool.day_cost + transport_cost(trip_request))
     IN IF DayPlan_validates(kwargs)
          THEN tool' = tool_enter_day(
                 [tool EXCEPT !.daily_plans =
                    Append(@, [day_index |-> kwargs.day_index,
                               day_date |-> kwargs.day_date,
                               places |-> kwargs.places,
                               total_cost |-> kwargs.total_cost,
                               notes |-> kwargs.notes])],
                 tool.day_num + 1)
          ELSE tool' = [tool EXCEPT !.pc = "raised",
                                    !.raised = <<"ValidationError">>]
  /\ UNCHANGED <<planner_vars, fetch, agent>>

\* line 173: return daily_plans
ToolReturn ==
  /\ tool.pc = "return"
  /\ tool' = [tool EXCEPT !.pc = "returned"]
  /\ UNCHANGED <<planner_vars, fetch, agent>>

NextTool ==
  Rank \/ AddPlace \/ FinishDay \/ Aggregate
    \/ ToolCall \/ ToolAddPlace \/ ToolFinishDay \/ ToolReturn

SpecTool == InitTool /\ [][NextTool]_vars

(***************************************************************************)
(* Properties                                                              *)
(***************************************************************************)
\* the places of the finished days, in day order and visiting order
RECURSIVE PlacesOfDays(_)
PlacesOfDays(plans) ==
  IF plans = <<>> THEN <<>> ELSE Head(plans).places \o PlacesOfDays(Tail(plans))

\* places assigned so far: finished days, then the day being filled
AssignedSoFar ==
  PlacesOfDays(daily_plans) \o (IF pc = "alloc" THEN day_places ELSE <<>>)

\* ranked position just before the first place of day d
StartOfDay(d) == Len(PlacesOfDays(SubSeq(daily_plans, 1, d - 1)))

\* ranked position of the last place of day d
EndOfDay(d) == Len(PlacesOfDays(SubSeq(daily_plans, 1, d)))

\* the trip's length and the ceiling daily_budget * 1.2, from the request
TripDays == trip_request.end_date - trip_request.start_date
AtMostCeiling(cost) == cost * 5 * Max(TripDays, 1) <= trip_request.budget * 6
ExactlyCeiling(cost) == cost * 5 * Max(TripDays, 1) = trip_request.budget * 6

\* meal allowance plus the first j places of a place list, for the group
RunningCost(ps, j) ==
  trip_request.group_size
    * (Dollars(40) + SumSeq([i \in 1..j |-> ps[i].estimated_cost]))

\* C1: once the day loop has ended there are exactly num_days DayPlan
\* entries, and the entries carry day_index 1, 2, ... in that order
C1_DayCount ==
  /\ \A i \in 1..Len(daily_plans) : daily_plans[i].day_index = i
  /\ pc \in {"aggregate", "done"} => Len(daily_plans) = TripDays
  /\ pc = "done" => itinerary.days = daily_plans

\* the empty POI list still yields one DayPlan per day
C1_Witness ==
  /\ pc = "done"
  /\ places = <<>>
  /\ TripDays = MaxDays
  /\ Len(itinerary.days) = MaxDays

\* C2: the places assigned so far are exactly the first current_index
\* elements of the ranked list; the cursor stays within the list and never
\* decreases
C2_Prefix ==
  /\ [](/\ current_index \in 0..Len(ranked_places)
        /\ AssignedSoFar = SubSeq(ranked_places, 1, current_index))
  /\ [][current_index' >= current_index]_vars

\* two non-empty days and a POI left over
C2_Witness ==
  /\ pc = "done"
  /\ Len(daily_plans) = 2
  /\ daily_plans[1].places # <<>>
  /\ daily_plans[2].places # <<>>
  /\ current_index < Len(ranked_places)

C4_StopAtRejection ==
  [][(/\ pc = "alloc"
      /\ current_index < Len(ranked_places)
      /\ ~ AtMostCeiling(day_cost + ranked_places[current_index + 1].estimated_cost
                                      * trip_request.group_size))
       => /\ Len(daily_plans') = Len(daily_plans) + 1
          /\ daily_plans'[Len(daily_plans')].places = day_places
          /\ current_index' = current_index
          /\ pc' = "alloc" => day_places' = <<>> /\ day_num' = day_num + 1]_vars

\* a day closed on a rejected POI although a later POI would have fitted,
\* and the rejected POI opens the next day
C4_Witness ==
  \E d \in 1..(Len(daily_plans) - 1) :
    LET ps == daily_plans[d].places
        k == EndOfDay(d)
    IN  /\ Len(ps) < target_places_per_day(trip_request.pace)
        /\ k < Len(ranked_places)
        /\ ~ AtMostCeiling(RunningCost(ps, Len(ps))
                             + ranked_places[k + 1].estimated_cost * trip_request.group_size)
        /\ \E j \in (k + 2)..Len(ranked_places) :
             AtMostCeiling(RunningCost(ps, Len(ps))
                             + ranked_places[j].estimated_cost * trip_request.group_size)
        /\ daily_plans[d + 1].places # <<>>
        /\ StartOfDay(d + 1) = k

\* the pace targets as the documentation lists them
PaceTarget(p) ==
  IF p = "relaxed" THEN 2 ELSE IF p = "packed" THEN 5 ELSE 3

\* C5: no DayPlan holds more places than the pace target (2 relaxed,
\* 3 moderate, 5 packed, 3 for any other pace); a day with fewer places
\* ended because the queue was exhausted or the next POI failed the ceiling
C5_PaceTarget ==
  \A d \in 1..Len(daily_plans) :
    LET ps == daily_plans[d].places
        k == EndOfDay(d)
    IN  /\ Len(ps) <= PaceTarget(trip_request.pace)
        /\ Len(ps) < PaceTarget(trip_request.pace) =>
             \/ k = Len(ranked_places)
             \/ ~ AtMostCeiling(RunningCost(ps, Len(ps))
                                  + ranked_places[k + 1].estimated_cost
                                      * trip_request.group_size)

\* an unrecognised pace: a day filled to the default target with POIs left
C5_Witness ==
  /\ pc = "done"
  /\ trip_request.pace \notin ValidPaces
  /\ \E d \in 1..Len(daily_plans) :
       /\ Len(daily_plans[d].places) = 3
       /\ EndOfDay(d) < Len(ranked_places)

\* number of occurrences of x in the sequence s
Count(s, x) == Cardinality({i \in 1..Len(s) : s[i] = x})

\* C6: the ranked list is a permutation of the input list: same length and
\* the same number of occurrences of every POI (an empty input gives an
\* empty output); each ranked entry is the input entry at its position pos
C6_Permutation ==
  pc # "rank" =>
    /\ Len(ranked_places) = Len(places)
    /\ \A p \in Catalogue \cup FreeCatalogue :
         Count(ranked_places, p) = Count(places, p)
    /\ {scored_places[i].pos : i \in 1..Len(scored_places)} = 1..Len(places)
    /\ \A i \in 1..Len(ranked_places) : ranked_places[i] = places[scored_places[i].pos]

\* a reordered list of three or more POIs with a repeated POI
C6_Witness ==
  /\ pc # "rank"
  /\ Len(places) >= 3
  /\ ranked_places # places
  /\ \E p \in Catalogue : Count(places, p) >= 2

\* C7: along the ranked list the relevance score never increases
C7_SortOrder ==
  pc # "rank" =>
    \A i \in 1..(Len(ranked_places) - 1) :
      score_of(trip_request, ranked_places[i], city_coords)
        >= score_of(trip_request, ranked_places[i + 1], city_coords)

\* an input in which a lower score came before a higher one
C7_Witness ==
  /\ pc # "rank"
  /\ Len(places) >= 3
  /\ \E i \in 1..(Len(places) - 1) :
       score_of(trip_request, places[i], city_coords)
         < score_of(trip_request, places[i + 1], city_coords)

\* C8: two POIs with equal scores keep their input order
C8_Stable ==
  pc # "rank" =>
    /\ \A i \in 1..Len(scored_places) :
         scored_places[i].score
           = score_of(trip_request, places[scored_places[i].pos], city_coords)
    /\ \A i \in 1..Len(scored_places) : \A j \in (i + 1)..Len(scored_places) :
         scored_places[i].score = scored_places[j].score
           => scored_places[i].pos < scored_places[j].pos

\* two different POIs tie, and the sort moved a later POI in front of them
C8_Witness ==
  /\ pc # "rank"
  /\ \E i \in 1..Len(scored_places) : \E j \in (i + 1)..Len(scored_places) :
       /\ scored_places[i].score = scored_places[j].score
       /\ scored_places[i].place # scored_places[j].place
       /\ scored_places[1].pos > scored_places[j].pos

\* C9: a DayPlan's total_cost is group_size * (40 + 15 + the estimated_cost
\* of its places) rounded to the nearest cent
C9_DayTotal ==
  \A d \in 1..Len(daily_plans) :
    LET ps == daily_plans[d].places
        exact == trip_request.group_size
                   * (Dollars(40) + Dollars(15)
                        + SumSeq([i \in 1..Len(ps) |-> ps[i].estimated_cost]))
    IN  2 * daily_plans[d].total_cost - 25 * exact \in -1..1

\* a day with two or more places whose exact cost, 79.125 dollars or the
\* like, is not a whole number of cents, so that the rounding acts
C9_Witness ==
  \E d \in 1..Len(daily_plans) :
    LET ps == daily_plans[d].places
    IN  /\ Len(ps) >= 2
        /\ (25 * trip_request.group_size
               * SumSeq([i \in 1..Len(ps) |-> ps[i].estimated_cost])) % 2 = 1

OverBudgetText == <<"o","v","e","r"," ","b","u","d","g","e","t">>

\* C10: the itinerary's total_cost is the sum of its days' total_cost; its
\* note says "within budget" exactly when that total is at most the trip
\* budget and otherwise says "over budget", never both
C10_Total ==
  pc = "done" =>
    LET total == itinerary.total_cost
        status == itinerary.notes.budget_status
        within == total * 8 <= trip_request.budget * 100
    IN  /\ total = SumSeq([i \in 1..Len(itinerary.days) |-> itinerary.days[i].total_cost])
        /\ contains(status, WithinBudgetText) <=> within
        /\ contains(status, OverBudgetText) <=> ~ within

\* a trip whose total equals the budget to the cent
C10_Witness ==
  /\ pc = "done"
  /\ itinerary.total_cost * 8 = trip_request.budget * 100
  /\ itinerary.notes.budget_status = WithinBudgetText

\* the part of a ranked entry's score that is not the proximity score
NonProximity(e) == e.score - proximity_score(e.place, city_coords)

\* number of entries of the interest list that are, case-folded, a substring
\* of the place's category or of its name
Matches(interests, p) ==
  Cardinality({k \in 1..Len(interests) :
                 \/ contains(lower(p.category), lower(interests[k]))
                 \/ contains(lower(p.name), lower(interests[k]))})

C12_Haversine ==
  pc # "rank" =>
    \A i \in 1..Len(scored_places) :
      LET p == scored_places[i].place
          d == calculate_distance(city_coords[1], city_coords[2], p.latitude, p.longitude)
          proximity == scored_places[i].score
                         - (160 * Matches(trip_request.interests, p)
                              + rating_score(p)
                              + (IF budget_friendly(trip_request, p) THEN 64 ELSE 0))
      IN  p.longitude = city_coords[2] =>
            /\ proximity - Max(0, 160 - d \div 2) \in -1..1
            /\ proximity = 0 <=> d >= 320

ScenarioInterests == << <<"m","u","s","e","u","m","s">> >>

\* C13 (as claimed): in example scenario 1 City Museum gets the +5 interest
\* bonus, ranks above Riverside Park, and both are placed in day 1
C13_Scenario1 ==
  (/\ pc = "done"
   /\ trip_request.interests = ScenarioInterests
   /\ trip_request.pace = "relaxed"
   /\ trip_request.group_size = 1
   /\ trip_request.budget = Dollars(100)
   /\ TripDays = 1
   /\ places = <<ScenarioMuseum, ScenarioPark>>)
    => /\ \E i \in 1..Len(scored_places) :
            /\ scored_places[i].place = ScenarioMuseum
            /\ NonProximity(scored_places[i]) = 160 + 64
       /\ ranked_places = <<ScenarioMuseum, ScenarioPark>>
       /\ itinerary.days[1].places = <<ScenarioMuseum, ScenarioPark>>

\* three days of five POIs each, ranked positions 1-5, 6-10 and 11-15, and
\* the POIs from position 16 on placed on no day
FiveEachDay ==
  /\ Len(itinerary.days) = 3
  /\ \A d \in 1..3 :
       itinerary.days[d].places = SubSeq(ranked_places, 5 * (d - 1) + 1, 5 * d)
  /\ current_index = 15
  /\ Len(ranked_places) - current_index = ScenarioPOIs - 15

\* C14 (as claimed): with 3 days, pace packed and 20 free POIs every day
\* gets exactly 5 POIs and the last 5 are unplaced, whatever the budget and
\* the group size
C14_Scenario2_AnyBudget ==
  (pc = "done" /\ TripDays = 3 /\ trip_request.pace = "packed") => FiveEachDay

\* C14 (amended): the same, for the budgets and group sizes whose meal
\* allowance 40 * group_size is at most daily_budget * 1.2
C14_Scenario2 ==
  (/\ pc = "done" /\ TripDays = 3 /\ trip_request.pace = "packed"
   /\ AtMostCeiling(Dollars(40) * trip_request.group_size))
    => FiveEachDay

\* the meal allowance sits exactly on the ceiling, the ranking reordered the
\* 20 POIs, and 15 of them were placed
C14_Witness ==
  /\ pc = "done"
  /\ ExactlyCeiling(Dollars(40) * trip_request.group_size)
  /\ Len(places) = ScenarioPOIs
  /\ ranked_places # places
  /\ FiveEachDay

\* C15: a day without places is still emitted and its total_cost is exactly
\* 55 * group_size; with a daily budget of 50 and a group of 2 every day is
\* empty and totals 110
C15_EmptyDay ==
  /\ \A d \in 1..Len(daily_plans) :
       daily_plans[d].places = <<>>
         => daily_plans[d].total_cost = 5500 * trip_request.group_size
  /\ (/\ trip_request.budget = Dollars(50) * Max(TripDays, 1)
      /\ trip_request.group_size = 2)
       => \A d \in 1..Len(daily_plans) :
            /\ daily_plans[d].places = <<>>
            /\ daily_plans[d].total_cost = 11000
  /\ pc \in {"aggregate", "done"} => Len(daily_plans) = TripDays

\* daily budget 50, group of 2, POIs on offer: two days, both empty, 110 each
C15_Witness ==
  /\ pc = "done"
  /\ trip_request.budget = Dollars(50) * TripDays
  /\ trip_request.group_size = 2
  /\ places # <<>>
  /\ Len(itinerary.days) = 2
  /\ \A d \in 1..2 :
       itinerary.days[d].places = <<>> /\ itinerary.days[d].total_cost = 11000

C18_DayDate ==
  \A d \in 1..Len(daily_plans) :
    /\ daily_plans[d].day_date
         = trip_request.start_date + (daily_plans[d].day_index - 1)
    /\ d = 1 => daily_plans[d].day_date = trip_request.start_date
    /\ d > 1 => daily_plans[d].day_date = daily_plans[d - 1].day_date + 1

\* example scenario 4: start 2025-06-01 (ordinal 739403), two days
C18_Witness ==
  /\ pc = "done"
  /\ trip_request.start_date = 739403
  /\ Len(itinerary.days) = 2
  /\ itinerary.days[1].day_date = 739403
  /\ itinerary.days[2].day_date = 739404

\* C19: with num_days 0 or negative the day loop is not entered, the call
\* runs to its return, and the itinerary has no DayPlan and total cost 0
C19_NoDays ==
  TripDays <= 0 =>
    /\ pc \in {"rank", "aggregate", "done"}
    /\ daily_plans = <<>>
    /\ pc = "done" =>
         /\ itinerary.days = <<>>
         /\ itinerary.total_cost = 0
         /\ itinerary.notes.budget_status = WithinBudgetText

\* a trip of -1 days over a non-empty POI list has returned
C19_Witness ==
  /\ pc = "done"
  /\ TripDays = -1
  /\ places # <<>>
  /\ itinerary.days = <<>>
  /\ itinerary.total_cost = 0

\* C20: fetch_pois ends by returning a list of Place records, never by
\* raising to its caller; when the request to every configured server
\* failed, or the response could not be processed, it returns the empty list
C20_EmptyListOnFailure ==
  /\ fetch.pc # "raised"
  /\ fetch.pc = "returned" =>
       /\ \A i \in 1..Len(fetch.places) :
            DOMAIN fetch.places[i] = DOMAIN CityMuseum
       /\ ~fetch.elements.is_list => fetch.places = <<>>
  /\ fetch.server > Len(OVERPASS_SERVERS) /\ fetch.pc # "request" =>
       fetch.pc = "returned" /\ fetch.places = <<>>

\* C22: once a day plan has no places every later day plan has none either,
\* and the day being filled after an empty day stays empty: it starts at the
\* same cursor with the same meal cost
C22_EmptyDaysStayEmpty ==
  /\ \A d \in 1..Len(daily_plans) : \A e \in d..Len(daily_plans) :
       daily_plans[d].places = <<>> => daily_plans[e].places = <<>>
  /\ (/\ pc = "alloc"
      /\ daily_plans # <<>>
      /\ daily_plans[Len(daily_plans)].places = <<>>)
       => /\ day_places = <<>>
          /\ day_cost = meal_cost(trip_request)

\* a first day left empty because its first candidate did not fit for one
\* traveller, followed by a second empty day, with POIs still unassigned
C22_Witness ==
  /\ pc = "done"
  /\ trip_request.group_size = 1
  /\ Len(itinerary.days) = 2
  /\ itinerary.days[1].places = <<>>
  /\ itinerary.days[2].places = <<>>
  /\ current_index < Len(ranked_places)

\* C21: create_itinerary never ends by raising: with the rule-based model
\* it returns the Itinerary of create_itinerary_simple, and with an AI model
\* a failure on the agent path ends in the fallback's Itinerary
C21_AlwaysReturns ==
  /\ agent.pc # "raised"
  /\ agent.pc = "returned" /\ agent.model = "test" =>
       /\ agent.origin = "simple"
       /\ pc = "done"
       /\ itinerary # <<>>
  /\ agent.pc = "returned" /\ agent.origin = "simple" =>
       pc = "done" /\ itinerary # <<>>

\* C23: for the same trip request and ranked list the tool
\* allocate_places_to_days returns the day plans of the allocation loop of
\* create_itinerary_simple: same indices, dates, places and total costs
C23_SameDayPlans ==
  tool.pc \in {"returned", "raised"} =>
    /\ tool.pc = "returned"
    /\ tool.daily_plans = itinerary.days

====
